---- MODULE Spec2Model ----
(***************************************************************************)
(* A model of the wordle / dordle solver: the feedback scorer, the         *)
(* histogram codec, the candidate filter (AnswerIterator), the minimax     *)
(* guess selector, the simulation harness and the line-driven front ends.  *)
(*                                                                         *)
(* A word is a tuple of bytes (ASCII codes); a Color is one of the strings *)
(* GREY, YELLOW, GREEN; an Option is a sequence of length 0 (None) or 1    *)
(* (Some(x) is <<x>>).                                                     *)
(***************************************************************************)
EXTENDS Integers, Sequences, FiniteSets, TLC

----------------------------------------------------------------------------
(* Bounds of the model *)

\* letters of the alphabet used by the exhaustively enumerated words
NumLetters == 2
\* longest candidate list handed to the filter in the scorer/filter checks
MaxCands == 2

----------------------------------------------------------------------------
(* Program constants *)

WordLen == 5
AlphabetSize == 26
LowerA == 97
Digit0 == 48

GREY == "GREY"
YELLOW == "YELLOW"
GREEN == "GREEN"
Color == {GREY, YELLOW, GREEN}

None == <<>>
Some(x) == <<x>>

Pos == 1..WordLen

\* words of the repository's own tests
solar == <<115, 111, 108, 97, 114>>
taser == <<116, 97, 115, 101, 114>>
cling == <<99, 108, 105, 110, 103>>
\* the fixed opening guesses
arise == <<97, 114, 105, 115, 101>>
salet == <<115, 97, 108, 101, 116>>

Range(s) == {s[i] : i \in 1..Len(s)}
Min(a, b) == IF a < b THEN a ELSE b
Max(a, b) == IF a > b THEN a ELSE b

----------------------------------------------------------------------------
(* Histogram codec *)

\* (word[i] - b'a') as usize indexes a [i8; 26]: any byte outside a..z
\* panics (subtraction overflow, or index out of bounds after wrapping)
IsLower(b) == b >= LowerA /\ b < LowerA + AlphabetSize

HistoStepFlat(res, w) == [res EXCEPT ![w] = @ + 2]

HistoStep(res, w) ==
    IF res[w] > 0 THEN [res EXCEPT ![w] = @ + 1]
                  ELSE [res EXCEPT ![w] = @ + 2]

RECURSIVE HistoLoop(_, _, _)
HistoLoop(word, i, res) ==
    IF i > WordLen THEN res
    ELSE HistoLoop(word, i + 1, HistoStep(res, word[i] - LowerA))

histo(word) == HistoLoop(word, 1, [k \in 0..(AlphabetSize - 1) |-> -1])

----------------------------------------------------------------------------
(* Feedback scorer *)

ScoreGreen(answ, guess, i, st) ==
    IF answ[i] = guess[i]
    THEN [res  |-> [st.res EXCEPT ![i] = GREEN],
          hist |-> [st.hist EXCEPT ![answ[i] - LowerA] = @ - 1]]
    ELSE st

ScoreYellow(answ, guess, i, st) ==
    IF answ[i] # guess[i] /\ st.hist[guess[i] - LowerA] > 0
    THEN [res  |-> [st.res EXCEPT ![i] = YELLOW],
          hist |-> [st.hist EXCEPT ![guess[i] - LowerA] = @ - 1]]
    ELSE st

RECURSIVE ScoreGreenLoop(_, _, _, _)
ScoreGreenLoop(answ, guess, i, st) ==
    IF i > WordLen THEN st
    ELSE ScoreGreenLoop(answ, guess, i + 1, ScoreGreen(answ, guess, i, st))

RECURSIVE ScoreYellowLoop(_, _, _, _)
ScoreYellowLoop(answ, guess, i, st) ==
    IF i > WordLen THEN st
    ELSE ScoreYellowLoop(answ, guess, i + 1, ScoreYellow(answ, guess, i, st))

score(answ, guess) ==
    ScoreYellowLoop(answ, guess, 1,
        ScoreGreenLoop(answ, guess, 1,
            [res |-> [i \in Pos |-> GREY], hist |-> histo(answ)])).res

----------------------------------------------------------------------------
(* Candidate filter: AnswerIterator *)

FreqRejectsLoose(r, g_freq) ==
    \/ r = YELLOW /\ g_freq < 0
    \/ r = GREY /\ g_freq >= 0

\* the two frequency tests of the second pass
FreqRejects(r, g_freq) ==
    \/ r = YELLOW /\ g_freq < 0
    \/ r = GREY /\ g_freq > 0

\* one iteration of the first loop; st.ret is "go", "false" or "panic"
EligibleGreen(word, guess, result, i, st) ==
    IF st.ret # "go" THEN st
    ELSE IF result[i] = GREEN
    THEN IF word[i] # guess[i] THEN [st EXCEPT !.ret = "false"]
         ELSE IF ~IsLower(guess[i]) THEN [st EXCEPT !.ret = "panic"]
         ELSE [st EXCEPT !.hist[guess[i] - LowerA] = @ - 1]
    ELSE IF result[i] = YELLOW
    THEN IF ~IsLower(guess[i]) THEN [st EXCEPT !.ret = "panic"]
         ELSE [st EXCEPT !.hist[guess[i] - LowerA] = @ - 1]
    ELSE st

\* one iteration of the second loop
EligibleRest(word, guess, result, i, st) ==
    IF st.ret # "go" THEN st
    ELSE IF result[i] = GREEN THEN st
    ELSE IF word[i] = guess[i] THEN [st EXCEPT !.ret = "false"]
    ELSE IF ~IsLower(guess[i]) THEN [st EXCEPT !.ret = "panic"]
    ELSE IF FreqRejects(result[i], st.hist[guess[i] - LowerA])
         THEN [st EXCEPT !.ret = "false"]
    ELSE st

RECURSIVE EligibleGreenLoop(_, _, _, _, _)
EligibleGreenLoop(word, guess, result, i, st) ==
    IF i > WordLen THEN st
    ELSE EligibleGreenLoop(word, guess, result, i + 1,
                           EligibleGreen(word, guess, result, i, st))

RECURSIVE EligibleRestLoop(_, _, _, _, _)
EligibleRestLoop(word, guess, result, i, st) ==
    IF i > WordLen THEN st
    ELSE EligibleRestLoop(word, guess, result, i + 1,
                          EligibleRest(word, guess, result, i, st))

\* "true", "false" or "panic"
eligible(word, hist, guess, result) ==
    LET st == EligibleRestLoop(word, guess, result, 1,
                  EligibleGreenLoop(word, guess, result, 1,
                      [ret |-> "go", hist |-> hist]))
    IN IF st.ret = "go" THEN "true" ELSE st.ret

HistoOfFirst(answers, i) == histo(answers[1])

\* the histogram the iterator pairs with answers[i]
HistoOf(answers, i) == histo(answers[i])

Histos(answers) == [i \in 1..Len(answers) |-> HistoOf(answers, i)]

\* AnswerIterator::next from a 0-based index: the item found (an Option),
\* the index after the call, and whether eligible panicked
RECURSIVE IterNext(_, _, _, _, _)
IterNext(answers, histos, guess, result, index) ==
    IF index >= Len(answers)
    THEN [item |-> None, index |-> index, panic |-> FALSE]
    ELSE LET ok == eligible(answers[index + 1], histos[index + 1], guess, result)
         IN IF ok = "panic"
            THEN [item |-> None, index |-> index, panic |-> TRUE]
            ELSE IF ok = "true"
            THEN [item |-> Some(answers[index + 1]), index |-> index + 1,
                  panic |-> FALSE]
            ELSE IterNext(answers, histos, guess, result, index + 1)

\* Iterator::collect over AnswerIterator::prune(answers, histos, guess, result)
RECURSIVE CollectFrom(_, _, _, _, _, _)
CollectFrom(answers, histos, guess, result, index, acc) ==
    LET n == IterNext(answers, histos, guess, result, index)
    IN IF n.panic THEN [panic |-> TRUE, items |-> acc]
       ELSE IF n.item = None THEN [panic |-> FALSE, items |-> acc]
       ELSE CollectFrom(answers, histos, guess, result, n.index,
                        Append(acc, n.item[1]))

prune(answers, histos, guess, result) ==
    CollectFrom(answers, histos, guess, result, 0, <<>>)

\* Iterator::count
count(answers, histos, guess, result) ==
    Len(prune(answers, histos, guess, result).items)

----------------------------------------------------------------------------
(* Parsing of the typed guess and feedback *)

parse_guess(guess) == IF Len(guess) # WordLen THEN None ELSE Some(guess)

ParseDigit(b) ==
    IF b = Digit0 THEN Some(GREY)
    ELSE IF b = Digit0 + 1 THEN Some(YELLOW)
    ELSE IF b = Digit0 + 2 THEN Some(GREEN)
    ELSE None

parse_result(result) ==
    IF Len(result) # WordLen THEN None
    ELSE IF \E i \in Pos : ParseDigit(result[i]) = None THEN None
    ELSE Some([i \in Pos |-> ParseDigit(result[i])[1]])

\* "none" (invalid input), "some" (the pruned list) or "panic" (abort)
maybe_prune(answers, opt_guess, opt_result) ==
    IF opt_guess = None \/ opt_result = None
    THEN [kind |-> "none", items |-> <<>>]
    ELSE LET pg == parse_guess(opt_guess[1])
             pr == parse_result(opt_result[1])
         IN IF pg = None \/ pr = None
            THEN [kind |-> "none", items |-> <<>>]
            ELSE LET c == prune(answers, Histos(answers), pg[1], pr[1])
                 IN IF c.panic THEN [kind |-> "panic", items |-> <<>>]
                    ELSE [kind |-> "some", items |-> c.items]

----------------------------------------------------------------------------
(* Input sets *)

Letters == LowerA..(LowerA + NumLetters - 1)
SmallWords == [Pos -> Letters]
TestWords == {solar, taser, cling}
Words == SmallWords \cup TestWords
Feedbacks == [Pos -> Color]

\* sequences without repetition, of length 1..n, over the set S
RECURSIVE DistinctSeqs(_, _)
DistinctSeqs(S, n) ==
    IF n = 0 THEN {}
    ELSE LET shorter == DistinctSeqs(S, n - 1)
         IN {<<x>> : x \in S} \cup shorter
            \cup {Append(s, x) : s \in shorter, x \in S}

NoDup(s) == \A i, j \in 1..Len(s) : i # j => s[i] # s[j]

\* the other candidates of a list, in their list order
Fillers == <<solar, taser, cling>>

InsertAt(s, k, x) == SubSeq(s, 1, k - 1) \o <<x>> \o SubSeq(s, k, Len(s))

\* the candidate lists of length MaxCands (shorter when the fillers run
\* out) holding the word a at any index among the first other fillers
CandLists(a) ==
    LET others == SelectSeq(Fillers, LAMBDA w : w # a)
        rest == SubSeq(others, 1, Min(MaxCands - 1, Len(others)))
    IN {InsertAt(rest, k, a) : k \in 1..(Len(rest) + 1)}

----------------------------------------------------------------------------
(* State *)

VARIABLES
    \* scoring a guess against a hidden answer, then filtering a list
    p_answers,   \* the candidate list handed to AnswerIterator::prune
    p_guess,     \* the guess
    p_answ,      \* the hidden answer
    p_result,    \* Option: the feedback score returned
    p_index,     \* AnswerIterator.index
    p_out,       \* the items collected from the iterator so far
    p_pc,        \* "start", "iter", "done"
    \* maybe_prune on a typed guess and a typed feedback
    t_answers,   \* the candidate list
    t_guess,     \* Option: the typed guess string
    t_result,    \* Option: the typed feedback string
    t_ret,       \* what maybe_prune returned
    t_pc,        \* "start", "done"
    \* one call of best_guess
    b_mode,      \* "wordle" (one board) or "dordle" (two boards)
    b_left,      \* answers (wordle), answers_left (dordle)
    b_right,     \* answers_right (dordle)
    b_guesses,   \* guesses
    b_done,      \* indices of the guesses whose closure has run
    b_scored,    \* scored_guesses being collected: an Option per slot
    b_ret,       \* Option: the (bestguess, bestsco) returned
    b_pc,        \* "map", "done"
    \* the word corpora
    ANSW_LIST,
    GUESS_LIST,
    \* one call of sim_one
    s_mode,      \* "wordle" or "dordle"
    s_answer1,   \* answer (wordle), answer1 (dordle)
    s_answer2,   \* answer2 (dordle)
    s_answers,   \* the boards: <<answers>> or <<answers[0], answers[1]>>
    s_nrounds,
    s_guessed,
    s_issued,    \* the guesses issued so far, one per round
    s_pc,        \* "loop", "done"
    \* the read-eval loop of main
    r_mode,      \* "wordle" or "dordle"
    r_answers,   \* the boards
    r_prev_best_guess,
    r_line,      \* the line last read, split into words
    r_shown,     \* Option: the best guess last printed
    r_out,       \* what the last command printed: "usage", "best", ...
    r_status,    \* "prompt", "cmd", "aborted", "exited"
    \* one call of fullsim
    f_mode,      \* "wordle" or "dordle"
    f_ii,        \* index of the (outer) loop, 0-based
    f_jj,        \* index of the inner loop (dordle), 0-based
    f_rounds,    \* the round counts printed so far, one per case
    f_worst,
    f_total,
    f_hist,
    f_report,    \* Option: the average (as a fraction) and the worst printed
    f_pc         \* "loop", "done"

pvars == <<p_answers, p_guess, p_answ, p_result, p_index, p_out, p_pc>>
tvars == <<t_answers, t_guess, t_result, t_ret, t_pc>>
bvars == <<b_mode, b_left, b_right, b_guesses, b_done, b_scored, b_ret, b_pc>>
cvars == <<ANSW_LIST, GUESS_LIST>>
svars == <<s_mode, s_answer1, s_answer2, s_answers, s_nrounds, s_guessed,
           s_issued, s_pc>>
rvars == <<r_mode, r_answers, r_prev_best_guess, r_line, r_shown, r_out,
           r_status>>
fvars == <<f_mode, f_ii, f_jj, f_rounds, f_worst, f_total, f_hist, f_report,
           f_pc>>
vars == <<pvars, tvars, bvars, cvars, svars, rvars, fvars>>

PIdle ==
    /\ p_answers = <<>> /\ p_guess = <<>> /\ p_answ = <<>> /\ p_result = None
    /\ p_index = 0 /\ p_out = <<>> /\ p_pc = "idle"

TIdle ==
    /\ t_answers = <<>> /\ t_guess = None /\ t_result = None
    /\ t_ret = [kind |-> "none", items |-> <<>>] /\ t_pc = "idle"

BIdle ==
    /\ b_mode = "idle" /\ b_left = <<>> /\ b_right = <<>> /\ b_guesses = <<>>
    /\ b_done = {} /\ b_scored = <<>> /\ b_ret = None /\ b_pc = "idle"

CIdle == ANSW_LIST = <<>> /\ GUESS_LIST = <<>>

SIdle ==
    /\ s_mode = "idle" /\ s_answer1 = <<>> /\ s_answer2 = <<>>
    /\ s_answers = <<>> /\ s_nrounds = 0 /\ s_guessed = 0 /\ s_issued = <<>>
    /\ s_pc = "idle"

FIdle ==
    /\ f_mode = "idle" /\ f_ii = 0 /\ f_jj = 0 /\ f_rounds = <<>>
    /\ f_worst = 0 /\ f_total = 0 /\ f_hist = <<>> /\ f_report = None
    /\ f_pc = "idle"

RIdle ==
    /\ r_mode = "idle" /\ r_answers = <<>> /\ r_prev_best_guess = None
    /\ r_line = <<>> /\ r_shown = None /\ r_out = "idle" /\ r_status = "idle"

----------------------------------------------------------------------------
(* Scoring and filtering: score, then AnswerIterator::prune(..).collect() *)

InitScore ==
    /\ p_answ \in Words
    /\ p_guess \in Words
    /\ p_answers \in CandLists(p_answ)
    /\ p_result = None
    /\ p_index = 0
    /\ p_out = <<>>
    /\ p_pc = "start"
    /\ TIdle /\ BIdle /\ CIdle /\ SIdle /\ RIdle /\ FIdle

\* let result = score(answer, guess); AnswerIterator::prune(&answers, ..)
Score ==
    /\ p_pc = "start"
    /\ p_result' = Some(score(p_answ, p_guess))
    /\ p_index' = 0
    /\ p_out' = <<>>
    /\ p_pc' = "iter"
    /\ UNCHANGED <<p_answers, p_guess, p_answ>>
    /\ UNCHANGED <<tvars, bvars, cvars, svars, rvars, fvars>>

\* one call of AnswerIterator::next by collect
Next ==
    /\ p_pc = "iter"
    /\ LET n == IterNext(p_answers, Histos(p_answers), p_guess, p_result[1],
                         p_index)
       IN /\ ~n.panic
          /\ p_index' = n.index
          /\ IF n.item = None
             THEN p_pc' = "done" /\ p_out' = p_out
             ELSE p_pc' = "iter" /\ p_out' = Append(p_out, n.item[1])
    /\ UNCHANGED <<p_answers, p_guess, p_answ, p_result>>
    /\ UNCHANGED <<tvars, bvars, cvars, svars, rvars, fvars>>

NextScore == Score \/ Next

SpecScore == InitScore /\ [][NextScore]_vars

----------------------------------------------------------------------------
(* maybe_prune on typed input *)

\* typed guesses: every word, and strings parse_guess or eligible may trip on
BadGuesses ==
    { <<97, 98, 97, 98>>,                \* "abab": too short
      <<97, 98, 97, 98, 97, 98>>,        \* "ababab": too long
      <<65, 98, 97, 98, 97>>,            \* "Ababa": upper case
      <<97, 98, 97, 98, 123>>,           \* "abab{": not a letter
      <<97, 98, 48, 98, 97>> }           \* "ab0ba": a digit
TypedGuesses == {Some(g) : g \in Words \cup BadGuesses} \cup {None}

BadResults ==
    { <<48, 49, 50, 48>>,                \* "0120": too short
      <<48, 49, 50, 48, 49, 50>>,        \* "012012": too long
      <<48, 49, 51, 48, 48>> }           \* "01300": not a colour
TypedResults ==
    {Some(r) : r \in [Pos -> Digit0..(Digit0 + 2)] \cup BadResults} \cup {None}

TypedLists ==
    {<<w>> : w \in Words} \cup {<<solar, taser>>, <<taser, cling, solar>>}

InitFilter ==
    /\ t_answers \in TypedLists
    /\ t_guess \in TypedGuesses
    /\ t_result \in TypedResults
    /\ t_ret = [kind |-> "none", items |-> <<>>]
    /\ t_pc = "start"
    /\ PIdle /\ BIdle /\ CIdle /\ SIdle /\ RIdle /\ FIdle

MaybePrune ==
    /\ t_pc = "start"
    /\ t_ret' = maybe_prune(t_answers, t_guess, t_result)
    /\ t_pc' = "done"
    /\ UNCHANGED <<t_answers, t_guess, t_result>>
    /\ UNCHANGED <<pvars, bvars, cvars, svars, rvars, fvars>>

NextFilter == MaybePrune

SpecFilter == InitFilter /\ [][NextFilter]_vars

----------------------------------------------------------------------------
(* Guess selector: best_guess of wordle.rs (one board) and of dordle.rs    *)
(* (two boards).  The closures of guesses.par_iter().map(..) run in any    *)
(* order; collect::<Vec<_>>() puts each result at its guess's index.       *)

\* stands for usize::MAX, beyond every score the model can reach
UsizeMax == 2147483647

\* sco -= 1 on a usize, wrapping as the optimised build does
SubOne(x) == IF x = 0 THEN UsizeMax ELSE x - 1

\* the candidates left on one board if answ were the secret
Numrem(answers, guess, answ) ==
    count(answers, Histos(answers), guess, score(answ, guess))

KeepLast(sco, numrem) == numrem

\* sco = max(sco, numrem)
MaxSco(sco, numrem) == Max(sco, numrem)

\* the closure's loop over the hypothetical answers, taken in `order`
RECURSIVE GuessSco(_, _, _, _, _, _, _)
GuessSco(mode, left, right, order, guess, k, sco) ==
    IF k > Len(order) THEN sco
    ELSE LET numrem == IF mode = "wordle"
                       THEN Numrem(left, guess, order[k])
                       ELSE Numrem(left, guess, order[k])
                            + Numrem(right, guess, order[k])
         IN GuessSco(mode, left, right, order, guess, k + 1,
                     MaxSco(sco, numrem))

\* answers_hash (wordle), answers_total (dordle)
Members(mode, left, right) ==
    IF mode = "wordle" THEN Range(left) ELSE Range(left) \cup Range(right)

Perms(S) == {s \in [1..Cardinality(S) -> S] : NoDup(s)}

\* the orders in which the closure may meet the hypothetical answers: the
\* slice order (wordle), any order of the hash set (dordle)
IterOrders(mode, left, right) ==
    IF mode = "wordle" THEN {left} ELSE Perms(Members(mode, left, right))

StoreFirstFree(scored, i, e) ==
    LET k == CHOOSE j \in 1..Len(scored) :
                 scored[j] = None /\ \A h \in 1..(j - 1) : scored[h] # None
    IN [scored EXCEPT ![k] = Some(e)]

\* collect: the result of the closure run on guesses[i] lands at index i
StoreResult(scored, i, e) == [scored EXCEPT ![i] = Some(e)]

Unweighted(sco) == sco

\* let mut sco = sco * 2
Weighted(sco) == sco * 2

BetterOrEqual(sco, bestsco) == sco <= bestsco

\* if sco < bestsco
Better(sco, bestsco) == sco < bestsco

\* one iteration of the loop over scored_guesses
ReduceStep(members, st, e) ==
    LET sco == IF e.guess \in members THEN SubOne(Weighted(e.sco))
                                      ELSE Weighted(e.sco)
    IN IF Better(sco, st.bestsco)
       THEN [bestguess |-> Some(e.guess), bestsco |-> sco]
       ELSE st

RECURSIVE ReduceLoop(_, _, _, _)
ReduceLoop(members, scored, k, st) ==
    IF k > Len(scored) THEN st
    ELSE ReduceLoop(members, scored, k + 1,
                    ReduceStep(members, st, scored[k][1]))

\* a whole call, its closures run in guess order and the set in list order
SetOrder(mode, left, right) ==
    IF mode = "wordle" THEN left
    ELSE left \o SelectSeq(right, LAMBDA w : w \notin Range(left))

best_guess(mode, left, right, guesses) ==
    LET order == SetOrder(mode, left, right)
        scored == [i \in 1..Len(guesses) |->
                     Some([sco   |-> GuessSco(mode, left, right, order,
                                              guesses[i], 1, 0),
                           guess |-> guesses[i]])]
    IN ReduceLoop(Members(mode, left, right), scored, 1,
                  [bestguess |-> None, bestsco |-> UsizeMax])

\* bounds of the explored calls
MaxAnswers == 3
MaxGuesses == 3

fjord == <<102, 106, 111, 114, 100>>
nymph == <<110, 121, 109, 112, 104>>
waltz == <<119, 97, 108, 116, 122>>
flank == <<102, 108, 97, 110, 107>>

\* the answer words of the explored calls, in corpus order
BestAnswers == <<fjord, nymph, waltz, flank>>
\* the answer words of the explored two-board calls
DordleAnswers == <<nymph, waltz, flank>>

\* the sub-sequences of u of length up to n
SubLists(u, n) ==
    {SelectSeq(u, LAMBDA w : w \in T) :
        T \in {X \in SUBSET Range(u) : Cardinality(X) <= n}}

\* the guess lists of length up to n over the answer words u and salet
GuessLists(u, n) ==
    {<<>>} \cup {s \in DistinctSeqs(Range(u) \cup {salet}, n) : NoDup(s)}

InitBest ==
    /\ b_mode \in {"wordle", "dordle"}
    /\ IF b_mode = "wordle"
       THEN /\ b_left \in SubLists(BestAnswers, MaxAnswers)
            /\ b_right = <<>>
            /\ b_guesses \in GuessLists(BestAnswers, MaxGuesses)
       ELSE /\ b_left \in SubLists(DordleAnswers, MaxAnswers - 1)
            /\ b_right \in SubLists(DordleAnswers, MaxAnswers - 1)
            /\ b_guesses \in GuessLists(DordleAnswers, MaxGuesses - 1)
    /\ b_done = {}
    /\ b_scored = [i \in 1..Len(b_guesses) |-> None]
    /\ b_ret = None
    /\ b_pc = "map"
    /\ PIdle /\ TIdle /\ CIdle /\ SIdle /\ RIdle /\ FIdle

\* a worker runs the closure on guesses[i]
Worker(i) ==
    /\ b_pc = "map"
    /\ i \notin b_done
    /\ \E order \in IterOrders(b_mode, b_left, b_right) :
          b_scored' = StoreResult(b_scored, i,
                         [sco   |-> GuessSco(b_mode, b_left, b_right, order,
                                             b_guesses[i], 1, 0),
                          guess |-> b_guesses[i]])
    /\ b_done' = b_done \cup {i}
    /\ UNCHANGED <<b_mode, b_left, b_right, b_guesses, b_ret, b_pc>>
    /\ UNCHANGED <<pvars, tvars, cvars, svars, rvars, fvars>>

\* all closures have run: the sequential loop over scored_guesses, return
Reduce ==
    /\ b_pc = "map"
    /\ b_done = 1..Len(b_guesses)
    /\ b_ret' = Some(ReduceLoop(Members(b_mode, b_left, b_right), b_scored, 1,
                                [bestguess |-> None, bestsco |-> UsizeMax]))
    /\ b_pc' = "done"
    /\ UNCHANGED <<b_mode, b_left, b_right, b_guesses, b_done, b_scored>>
    /\ UNCHANGED <<pvars, tvars, cvars, svars, rvars, fvars>>

NextBest == (\E i \in 1..Len(b_guesses) : Worker(i)) \/ Reduce

SpecBest == InitBest /\ [][NextBest]_vars

\* the calls of the two-board best_guess alone
InitBestDordle == InitBest /\ b_mode = "dordle"

SpecBestDordle == InitBestDordle /\ [][NextBest]_vars

----------------------------------------------------------------------------
(* Simulation harness: sim_one of wordle.rs and of dordle.rs, over corpora *)
(* drawn from a few words (the word lists themselves are data).            *)

\* bounds of the explored simulations
MaxCorpus == 3
MaxRounds == 8

raise == <<114, 97, 105, 115, 101>>

\* the words an answer corpus may hold
SimAnswerWords == {arise, raise, solar, taser, cling}

\* the answer corpora: no word twice
Corpora == {s \in DistinctSeqs(SimAnswerWords, MaxCorpus) : NoDup(s)}

\* the guess-only corpora: words that are never answers
GuessCorpora == {<<>>, <<salet>>, <<fjord>>, <<fjord, salet>>}

\* main: guesses = GUESS_LIST followed by ANSW_LIST
Guesses == GUESS_LIST \o ANSW_LIST

OpeningRoundAlways(nrounds) == nrounds >= 0

\* if nrounds == 0
OpeningRound(nrounds) == nrounds = 0

\* AnswerIterator::prune(&answers, &histos, parse_guess(guess).unwrap(),
\* result).collect()
SimPrune(answers, guess, result) ==
    prune(answers, Histos(answers), parse_guess(guess)[1], result).items

InitSim ==
    /\ ANSW_LIST \in Corpora
    /\ GUESS_LIST \in GuessCorpora
    /\ s_mode \in {"wordle", "dordle"}
    /\ IF s_mode = "wordle"
       THEN /\ s_answer1 \in Range(ANSW_LIST)
            /\ s_answer2 = <<>>
            /\ s_answers = <<ANSW_LIST>>
       ELSE \* fullsim: answ1 = ANSW_LIST[ii], answ2 = ANSW_LIST[jj], ii < jj
            /\ \E ii \in 1..(Len(ANSW_LIST) - 1) :
                  \E jj \in (ii + 1)..Len(ANSW_LIST) :
                     /\ s_answer1 = ANSW_LIST[ii]
                     /\ s_answer2 = ANSW_LIST[jj]
            /\ s_answers = <<ANSW_LIST, ANSW_LIST>>
    /\ s_nrounds = 0
    /\ s_guessed = 0
    /\ s_issued = <<>>
    /\ s_pc = "loop"
    /\ PIdle /\ TIdle /\ BIdle /\ RIdle /\ FIdle

\* one iteration of the loop of wordle.rs sim_one
SimRoundWordle ==
    /\ s_pc = "loop"
    /\ s_mode = "wordle"
    /\ s_nrounds < MaxRounds
    /\ \E opt \in {IF OpeningRound(s_nrounds) THEN Some(arise)
                   ELSE best_guess("wordle", s_answers[1], <<>>,
                                   Guesses).bestguess} :
          IF opt = None
          THEN \* guess.unwrap() panics
               /\ s_pc' = "panic"
               /\ UNCHANGED <<s_answers, s_nrounds, s_issued>>
          ELSE LET guess == opt[1]
               IN /\ s_nrounds' = s_nrounds + 1
                  /\ s_issued' = Append(s_issued, guess)
                  /\ IF s_answer1 = guess
                     THEN s_pc' = "done" /\ s_answers' = s_answers
                     ELSE /\ s_pc' = "loop"
                          /\ s_answers' =
                                <<SimPrune(s_answers[1], guess,
                                           score(s_answer1, guess))>>
    /\ UNCHANGED <<s_mode, s_answer1, s_answer2, s_guessed>>
    /\ UNCHANGED <<pvars, tvars, bvars, cvars, rvars, fvars>>

\* one iteration of the loop of dordle.rs sim_one
SimRoundDordle ==
    /\ s_pc = "loop"
    /\ s_mode = "dordle"
    /\ s_nrounds < MaxRounds
    /\ \E opt \in {IF OpeningRound(s_nrounds) THEN Some(salet)
                   ELSE best_guess("dordle", s_answers[1], s_answers[2],
                                   Guesses).bestguess} :
          IF opt = None
          THEN /\ s_pc' = "panic"
               /\ UNCHANGED <<s_answers, s_nrounds, s_issued, s_guessed>>
          ELSE LET guess == opt[1]
                   guessed == s_guessed
                              + (IF s_answer1 = guess THEN 1 ELSE 0)
                              + (IF s_answer2 = guess THEN 1 ELSE 0)
               IN /\ s_nrounds' = s_nrounds + 1
                  /\ s_issued' = Append(s_issued, guess)
                  /\ s_guessed' = guessed
                  /\ IF guessed = 2
                     THEN s_pc' = "done" /\ s_answers' = s_answers
                     ELSE /\ s_pc' = "loop"
                          /\ s_answers' =
                                <<SimPrune(s_answers[1], guess,
                                           score(s_answer1, guess)),
                                  SimPrune(s_answers[2], guess,
                                           score(s_answer2, guess))>>
    /\ UNCHANGED <<s_mode, s_answer1, s_answer2>>
    /\ UNCHANGED <<pvars, tvars, bvars, cvars, rvars, fvars>>

NextSim == SimRoundWordle \/ SimRoundDordle

SpecSim == InitSim /\ [][NextSim]_vars

----------------------------------------------------------------------------
(* fullsim of wordle.rs and of dordle.rs: sim_one run on every case, the   *)
(* round counts added up, the average and the worst printed.               *)

\* the opening guess of sim_one: "arise" in wordle.rs, "salet" in dordle.rs
OpeningGuess(mode) == IF mode = "wordle" THEN arise ELSE salet

\* the one element of a singleton set
Only(S) == CHOOSE x \in S : TRUE

\* let (guess, _) = best_guess(..); guess.unwrap()
BestOf(mode, guesses, answers) ==
    IF mode = "wordle"
    THEN best_guess(mode, answers[1], <<>>, guesses).bestguess[1]
    ELSE best_guess(mode, answers[1], answers[2], guesses).bestguess[1]

\* the boards after the round's prune
SimBoards(mode, answer1, answer2, answers, guess) ==
    IF mode = "wordle"
    THEN <<SimPrune(answers[1], guess, score(answer1, guess))>>
    ELSE <<SimPrune(answers[1], guess, score(answer1, guess)),
           SimPrune(answers[2], guess, score(answer2, guess))>>

\* the loop of sim_one, from the state at the top of an iteration to the
\* round count returned
RECURSIVE SimLoop(_, _, _, _, _, _, _)
SimLoop(mode, guesses, answer1, answer2, answers, nrounds, guessed) ==
    Only({ LET hits == IF mode = "wordle" THEN 0
                       ELSE guessed + (IF answer1 = guess THEN 1 ELSE 0)
                                    + (IF answer2 = guess THEN 1 ELSE 0)
               solved == IF mode = "wordle" THEN answer1 = guess
                         ELSE hits = 2
           IN IF solved THEN nrounds + 1
              ELSE Only({ SimLoop(mode, guesses, answer1, answer2, next,
                                  nrounds + 1, hits) :
                          next \in {SimBoards(mode, answer1, answer2,
                                              answers, guess)} }) :
           guess \in {IF OpeningRound(nrounds) THEN OpeningGuess(mode)
                      ELSE BestOf(mode, guesses, answers)} })

\* sim_one(guesses, answer) and sim_one(guesses, answer1, answer2)
sim_one(mode, guesses, answer1, answer2) ==
    SimLoop(mode, guesses, answer1, answer2,
            IF mode = "wordle" THEN <<ANSW_LIST>> ELSE <<ANSW_LIST, ANSW_LIST>>,
            0, 0)

\* *hist.entry(rounds).or_default() += 1
HistAdd(hist, rounds) ==
    [r \in 1..Max(Len(hist), rounds) |->
        (IF r <= Len(hist) THEN hist[r] ELSE 0) + (IF r = rounds THEN 1 ELSE 0)]

\* the divisor of the printed average: ANSW_LIST.len() in both programs
DivideBy(mode) == Len(ANSW_LIST)

InitFullsim ==
    /\ ANSW_LIST \in Corpora
    /\ GUESS_LIST \in GuessCorpora
    /\ f_mode \in {"wordle", "dordle"}
    /\ f_ii = 0
    /\ f_jj = IF f_mode = "wordle" THEN 0 ELSE 1
    /\ f_rounds = <<>>
    /\ f_worst = 0
    /\ f_total = 0
    /\ f_hist = <<>>
    /\ f_report = None
    /\ f_pc = "loop"
    /\ PIdle /\ TIdle /\ BIdle /\ SIdle /\ RIdle

\* the body of the loop, for the round count of one case
Tally(rounds) ==
    /\ f_rounds' = Append(f_rounds, rounds)
    /\ f_worst' = IF rounds > f_worst THEN rounds ELSE f_worst
    /\ f_hist' = HistAdd(f_hist, rounds)
    /\ f_total' = f_total + rounds

\* println!("Average {} rounds, worst {} rounds", ..)
Report ==
    /\ f_report' = Some([num |-> f_total, den |-> DivideBy(f_mode),
                         worst |-> f_worst])
    /\ f_pc' = "done"
    /\ UNCHANGED <<f_mode, f_ii, f_jj, f_rounds, f_worst, f_total, f_hist>>
    /\ UNCHANGED <<pvars, tvars, bvars, cvars, svars, rvars>>

\* wordle.rs fullsim: one iteration of for answ in ANSW_LIST
FullsimWordleCase ==
    /\ f_pc = "loop"
    /\ f_mode = "wordle"
    /\ f_ii < Len(ANSW_LIST)
    /\ \E rounds \in {sim_one("wordle", Guesses, ANSW_LIST[f_ii + 1], <<>>)} :
          Tally(rounds)
    /\ f_ii' = f_ii + 1
    /\ UNCHANGED <<f_mode, f_jj, f_report, f_pc>>
    /\ UNCHANGED <<pvars, tvars, bvars, cvars, svars, rvars>>

\* wordle.rs fullsim: after the loop
FullsimWordleReport ==
    /\ f_pc = "loop"
    /\ f_mode = "wordle"
    /\ f_ii >= Len(ANSW_LIST)
    /\ Report

\* dordle.rs fullsim: one iteration of the inner loop, at (ii, jj)
FullsimDordleCase ==
    /\ f_pc = "loop"
    /\ f_mode = "dordle"
    /\ f_ii < Len(ANSW_LIST) - 1
    /\ \E rounds \in {sim_one("dordle", Guesses, ANSW_LIST[f_ii + 1],
                              ANSW_LIST[f_jj + 1])} :
          Tally(rounds)
    /\ IF f_jj + 1 < Len(ANSW_LIST)
       THEN f_jj' = f_jj + 1 /\ f_ii' = f_ii
       ELSE f_ii' = f_ii + 1 /\ f_jj' = f_ii + 2
    /\ UNCHANGED <<f_mode, f_report, f_pc>>
    /\ UNCHANGED <<pvars, tvars, bvars, cvars, svars, rvars>>

\* dordle.rs fullsim: after the loops
FullsimDordleReport ==
    /\ f_pc = "loop"
    /\ f_mode = "dordle"
    /\ f_ii >= Len(ANSW_LIST) - 1
    /\ Report

NextFullsim ==
    \/ FullsimWordleCase \/ FullsimWordleReport
    \/ FullsimDordleCase \/ FullsimDordleReport

SpecFullsim == InitFullsim /\ [][NextFullsim]_vars

----------------------------------------------------------------------------
(* Interactive loop: main of wordle.rs (one board) and of dordle.rs (two   *)
(* boards).  A line is its command word and the words after it.            *)

\* the corpora of the explored sessions
ReplCorpora == {<<solar, taser, cling>>, <<taser, cling>>}

\* typed guess words: "salet", "taser", "Salet", "sale"
ReplGuesses ==
    {salet, taser, <<83, 97, 108, 101, 116>>, <<115, 97, 108, 101>>}

\* typed feedback words: "21200", "12021", "00100", "22222", "01300", "0120"
ReplResults ==
    { <<50, 49, 50, 48, 48>>, <<49, 50, 48, 50, 49>>, <<48, 48, 49, 48, 48>>,
      <<50, 50, 50, 50, 50>>, <<48, 49, 51, 48, 48>>, <<48, 49, 50, 48>> }

\* the argument words of a line holding up to n feedback words after a guess
RECURSIVE ResultArgs(_)
ResultArgs(n) ==
    IF n = 0 THEN {<<>>}
    ELSE LET shorter == ResultArgs(n - 1)
         IN shorter \cup {Append(a, r) : a \in {b \in shorter : Len(b) = n - 1},
                                        r \in ReplResults}

GuessArgs(n) ==
    {<<>>} \cup {<<g>> \o a : g \in ReplGuesses, a \in ResultArgs(n)}

Plain(cmd) == [cmd |-> cmd, args |-> <<>>]
NoLine == Plain("")

\* "x" and end of input leave the loop
Leaves(line) == line.cmd \in {"x", "<eof>"}

PlainLines ==
    {Plain(c) : c \in {"r", "p", "b", "fs", "zz", "x", "<eof>"}}
WordleLines ==
    PlainLines \cup {[cmd |-> "g", args |-> a] : a \in GuessArgs(1)}
               \cup {[cmd |-> "gb", args |-> a] : a \in ResultArgs(1)}
DordleLines ==
    PlainLines \cup {[cmd |-> "g", args |-> a] : a \in GuessArgs(2)}

\* words.next() for the k-th word after the command
NextWord(line, k) == IF k <= Len(line.args) THEN Some(line.args[k]) ELSE None

\* bestguess.unwrap_or("")
UnwrapOrEmpty(opt) == IF opt = None THEN <<>> ELSE opt[1]

InitRepl ==
    /\ ANSW_LIST \in ReplCorpora
    /\ GUESS_LIST = <<salet>>
    /\ r_mode \in {"wordle", "dordle"}
    /\ r_answers = IF r_mode = "wordle" THEN <<ANSW_LIST>>
                   ELSE <<ANSW_LIST, ANSW_LIST>>
    /\ r_prev_best_guess = IF r_mode = "wordle" THEN Some(salet) ELSE None
    /\ r_shown = IF r_mode = "wordle" THEN Some(salet) ELSE None
    /\ r_line = NoLine
    /\ r_out = "none"
    /\ r_status = "prompt"
    /\ PIdle /\ TIdle /\ BIdle /\ SIdle /\ FIdle

\* rl.readline("> "): leave the loop on "x" or on end of input
ReadLine ==
    /\ r_status = "prompt"
    /\ \E line \in IF r_mode = "wordle" THEN WordleLines ELSE DordleLines :
          IF Leaves(line)
          THEN r_status' = "exited" /\ r_line' = NoLine
          ELSE r_status' = "cmd" /\ r_line' = line
    /\ UNCHANGED <<r_mode, r_answers, r_prev_best_guess, r_shown, r_out>>
    /\ UNCHANGED <<pvars, tvars, bvars, cvars, svars, fvars>>

\* a match arm has run: back to the top of the loop
Arm(mode, cmd) == r_status = "cmd" /\ r_mode = mode /\ r_line.cmd = cmd

Rest == UNCHANGED <<r_mode, pvars, tvars, bvars, cvars, svars, fvars>>

\* wordle.rs "gb"
CmdGb ==
    /\ Arm("wordle", "gb")
    /\ r_line' = NoLine
    /\ \E res \in {maybe_prune(r_answers[1], r_prev_best_guess,
                               NextWord(r_line, 1))} :
          IF res.kind = "panic"
          THEN /\ r_status' = "aborted"
               /\ UNCHANGED <<r_answers, r_prev_best_guess, r_shown, r_out>>
          ELSE IF res.kind = "some"
          THEN \E best \in {best_guess("wordle", res.items, <<>>,
                                       Guesses).bestguess} :
                  /\ r_answers' = <<res.items>>
                  /\ r_prev_best_guess' = best
                  /\ r_shown' = Some(UnwrapOrEmpty(best))
                  /\ r_out' = "best"
                  /\ r_status' = "prompt"
          ELSE /\ r_out' = "usage"
               /\ r_status' = "prompt"
               /\ UNCHANGED <<r_answers, r_prev_best_guess, r_shown>>
    /\ Rest

\* wordle.rs "g"
CmdG ==
    /\ Arm("wordle", "g")
    /\ r_line' = NoLine
    /\ \E res \in {maybe_prune(r_answers[1], NextWord(r_line, 1),
                               NextWord(r_line, 2))} :
          IF res.kind = "panic"
          THEN /\ r_status' = "aborted"
               /\ UNCHANGED <<r_answers, r_out>>
          ELSE IF res.kind = "some"
          THEN /\ r_answers' = <<res.items>>
               /\ r_out' = "none"
               /\ r_status' = "prompt"
          ELSE /\ r_out' = "usage"
               /\ r_status' = "prompt"
               /\ UNCHANGED r_answers
    /\ UNCHANGED <<r_prev_best_guess, r_shown>>
    /\ Rest

\* wordle.rs "r"
CmdR ==
    /\ Arm("wordle", "r")
    /\ r_line' = NoLine
    /\ r_answers' = <<ANSW_LIST>>
    /\ r_prev_best_guess' = Some(salet)
    /\ r_out' = "none"
    /\ r_status' = "prompt"
    /\ UNCHANGED r_shown
    /\ Rest

\* wordle.rs "p"
CmdP ==
    /\ Arm("wordle", "p")
    /\ r_line' = NoLine
    /\ r_out' = "list"
    /\ r_status' = "prompt"
    /\ UNCHANGED <<r_answers, r_prev_best_guess, r_shown>>
    /\ Rest

\* wordle.rs "b"
CmdB ==
    /\ Arm("wordle", "b")
    /\ r_line' = NoLine
    /\ r_shown' =
          IF Len(r_answers[1]) = Len(ANSW_LIST) THEN Some(arise)
          ELSE Some(UnwrapOrEmpty(best_guess("wordle", r_answers[1], <<>>,
                                             Guesses).bestguess))
    /\ r_out' = "best"
    /\ r_status' = "prompt"
    /\ UNCHANGED <<r_answers, r_prev_best_guess>>
    /\ Rest

\* wordle.rs "fs"
CmdFs ==
    /\ Arm("wordle", "fs")
    /\ r_line' = NoLine
    /\ r_out' = "sim"
    /\ r_status' = "prompt"
    /\ UNCHANGED <<r_answers, r_prev_best_guess, r_shown>>
    /\ Rest

\* wordle.rs: any other command word
CmdOther ==
    /\ r_status = "cmd" /\ r_mode = "wordle"
    /\ r_line.cmd \notin {"gb", "g", "r", "p", "b", "fs"}
    /\ r_line' = NoLine
    /\ r_out' = "nocmd"
    /\ r_status' = "prompt"
    /\ UNCHANGED <<r_answers, r_prev_best_guess, r_shown>>
    /\ Rest

StoreBoardsSwapped(res1, res2) == <<res2, res1>>

\* answers[0] = res1; answers[1] = res2
StoreBoards(res1, res2) == <<res1, res2>>

\* dordle.rs "g"
DordleCmdG ==
    /\ Arm("dordle", "g")
    /\ r_line' = NoLine
    /\ \E res1 \in {maybe_prune(r_answers[1], NextWord(r_line, 1),
                                NextWord(r_line, 2))} :
          IF res1.kind = "panic"
          THEN /\ r_status' = "aborted"
               /\ UNCHANGED <<r_answers, r_out>>
          ELSE IF res1.kind = "some"
          THEN \E res2 \in {maybe_prune(r_answers[2], NextWord(r_line, 1),
                                        NextWord(r_line, 3))} :
                  IF res2.kind = "panic"
                  THEN /\ r_status' = "aborted"
                       /\ UNCHANGED <<r_answers, r_out>>
                  ELSE IF res2.kind = "some"
                  THEN /\ r_answers' = StoreBoards(res1.items, res2.items)
                       /\ r_out' = "none"
                       /\ r_status' = "prompt"
                  ELSE /\ r_out' = "usage"
                       /\ r_status' = "prompt"
                       /\ UNCHANGED r_answers
          ELSE /\ r_out' = "usage"
               /\ r_status' = "prompt"
               /\ UNCHANGED r_answers
    /\ UNCHANGED <<r_prev_best_guess, r_shown>>
    /\ Rest

\* dordle.rs "r"
DordleCmdR ==
    /\ Arm("dordle", "r")
    /\ r_line' = NoLine
    /\ r_answers' = <<ANSW_LIST, ANSW_LIST>>
    /\ r_out' = "none"
    /\ r_status' = "prompt"
    /\ UNCHANGED <<r_prev_best_guess, r_shown>>
    /\ Rest

\* dordle.rs "p"
DordleCmdP ==
    /\ Arm("dordle", "p")
    /\ r_line' = NoLine
    /\ r_out' = "list"
    /\ r_status' = "prompt"
    /\ UNCHANGED <<r_answers, r_prev_best_guess, r_shown>>
    /\ Rest

\* dordle.rs "b"
DordleCmdB ==
    /\ Arm("dordle", "b")
    /\ r_line' = NoLine
    /\ r_shown' =
          IF /\ Len(r_answers[1]) = Len(ANSW_LIST)
             /\ Len(r_answers[2]) = Len(ANSW_LIST)
          THEN Some(arise)
          ELSE Some(UnwrapOrEmpty(best_guess("dordle", r_answers[1],
                                             r_answers[2],
                                             Guesses).bestguess))
    /\ r_out' = "best"
    /\ r_status' = "prompt"
    /\ UNCHANGED <<r_answers, r_prev_best_guess>>
    /\ Rest

\* dordle.rs "fs"
DordleCmdFs ==
    /\ Arm("dordle", "fs")
    /\ r_line' = NoLine
    /\ r_out' = "sim"
    /\ r_status' = "prompt"
    /\ UNCHANGED <<r_answers, r_prev_best_guess, r_shown>>
    /\ Rest

\* dordle.rs: any other command word
DordleCmdOther ==
    /\ r_status = "cmd" /\ r_mode = "dordle"
    /\ r_line.cmd \notin {"g", "r", "p", "b", "fs"}
    /\ r_line' = NoLine
    /\ r_out' = "nocmd"
    /\ r_status' = "prompt"
    /\ UNCHANGED <<r_answers, r_prev_best_guess, r_shown>>
    /\ Rest

NextRepl ==
    \/ ReadLine
    \/ CmdGb \/ CmdG \/ CmdR \/ CmdP \/ CmdB \/ CmdFs \/ CmdOther
    \/ DordleCmdG \/ DordleCmdR \/ DordleCmdP \/ DordleCmdB \/ DordleCmdFs
    \/ DordleCmdOther

SpecRepl == InitRepl /\ [][NextRepl]_vars

----------------------------------------------------------------------------
(* Properties of the scorer and the filter *)

Occ(w, c) == Cardinality({i \in Pos : w[i] = c})

\* standard duplicate-letter scoring, stated position by position
StdScore(answ, guess) ==
    [i \in Pos |->
        IF answ[i] = guess[i] THEN GREEN
        ELSE LET c == guess[i]
                 greens == Cardinality({j \in Pos : guess[j] = c /\ answ[j] = c})
                 earlier == Cardinality({j \in 1..(i - 1) :
                                            guess[j] = c /\ answ[j] # c})
             IN IF earlier < Occ(answ, c) - greens THEN YELLOW ELSE GREY]

Marks(res, guess, c) ==
    Cardinality({i \in Pos : guess[i] = c /\ res[i] \in {GREEN, YELLOW}})

\* score has just returned
PScored == p_pc = "iter" /\ p_index = 0 /\ p_result # None

\* C3: score(answer, guess) is standard duplicate-letter Wordle scoring:
\* GREEN exactly at the equal positions; for each letter the GREEN and
\* YELLOW marks number min(occurrences in guess, occurrences in answer),
\* the YELLOW ones on the leftmost non-GREEN positions; and
\* score(solar, taser) = GREY, YELLOW, YELLOW, GREY, GREEN.
C3_StandardScoring ==
    PScored =>
        LET res == p_result[1]
        IN /\ res = StdScore(p_answ, p_guess)
           /\ \A i \in Pos : res[i] = GREEN <=> p_answ[i] = p_guess[i]
           /\ \A c \in Range(p_guess) :
                 Marks(res, p_guess, c) = Min(Occ(p_guess, c), Occ(p_answ, c))
           /\ (p_answ = solar /\ p_guess = taser)
                 => res = <<GREY, YELLOW, YELLOW, GREY, GREEN>>

\* a guess with a repeated letter that earned YELLOW once and GREY later
C3_Witness ==
    /\ PScored
    /\ \E i, j \in Pos :
          /\ i < j
          /\ p_guess[i] = p_guess[j]
          /\ p_result[1][i] = YELLOW
          /\ p_result[1][j] = GREY
          /\ Occ(p_answ, p_guess[i]) >= 1

\* C1: soundness of pruning: the list collected from
\* prune(candidates, histograms, guess, score(answer, guess)) contains
\* answer whenever candidates does (and as soon as the iterator passed it).
C1_PruneKeepsAnswer ==
    /\ p_pc = "done" => p_answ \in Range(p_out)
    /\ p_pc = "iter" =>
          \A k \in 1..Len(p_answers) :
             (p_answers[k] = p_answ /\ k <= p_index) => p_answ \in Range(p_out)

\* the filter dropped another candidate and kept the answer
C1_Witness ==
    /\ p_pc = "done"
    /\ Len(p_answers) >= 2
    /\ Len(p_out) < Len(p_answers)
    /\ p_answ \in Range(p_out)
    /\ p_answ # p_guess

\* C2: completeness of pruning: for every candidate list, every 5-letter
\* lowercase guess and every feedback pattern a user can type, each word
\* kept by maybe_prune scores exactly that feedback against the guess.
C2_KeptWordsScoreFeedback ==
    (/\ t_pc = "done"
     /\ t_ret.kind = "some"
     /\ t_guess[1] \in Words)
    => \A k \in 1..Len(t_ret.items) :
          score(t_ret.items[k], t_guess[1]) = parse_result(t_result[1])[1]

----------------------------------------------------------------------------
(* Properties of the guess selector *)

SetMax(S) == CHOOSE x \in S : \A y \in S : y <= x
SetMin(S) == CHOOSE x \in S : \A y \in S : x <= y

\* the worst case of guess g: over every word the secret may still be, the
\* number of candidates left (summed over the two boards in dordle)
WorstCase(mode, left, right, g) ==
    SetMax({ IF mode = "wordle" THEN Numrem(left, g, a)
             ELSE Numrem(left, g, a) + Numrem(right, g, a) :
             a \in Members(mode, left, right) })

BDoneOn(mode) ==
    /\ b_pc = "done"
    /\ b_mode = mode
    /\ Members(b_mode, b_left, b_right) # {}
    /\ b_guesses # <<>>

BWorst(g) == WorstCase(b_mode, b_left, b_right, g)

\* C4: minimax optimality of the one-board best_guess: with a non-empty
\* candidate list and a non-empty guess list, the returned guess attains
\* the least worst case W(g) over the guess list.
C4_MinimaxOptimal ==
    BDoneOn("wordle") =>
        /\ b_ret[1].bestguess # None
        /\ b_ret[1].bestguess[1] \in Range(b_guesses)
        /\ \A g \in Range(b_guesses) :
              BWorst(b_ret[1].bestguess[1]) <= BWorst(g)

\* the chosen guess is no candidate, and a candidate in the guess list has
\* a strictly larger worst case
C4_Witness ==
    /\ BDoneOn("wordle")
    /\ b_ret[1].bestguess # None
    /\ b_ret[1].bestguess[1] \notin Range(b_left)
    /\ \E g \in Range(b_guesses) \cap Range(b_left) :
          BWorst(g) > BWorst(b_ret[1].bestguess[1])

\* indices of the guesses attaining the least worst case
BTied ==
    LET least == SetMin({BWorst(g) : g \in Range(b_guesses)})
    IN {i \in 1..Len(b_guesses) : BWorst(b_guesses[i]) = least}

BTiedMembers ==
    {i \in BTied : b_guesses[i] \in Members(b_mode, b_left, b_right)}

\* C5: tie-break of best_guess (one board and two boards): among the
\* guesses attaining the least worst case the returned one is a candidate
\* if any of them is, and among those still tied it is the earliest in
\* the guess list.
C5_TieBreak ==
    (BDoneOn("wordle") \/ BDoneOn("dordle")) =>
        LET pick == IF BTiedMembers # {} THEN SetMin(BTiedMembers)
                                         ELSE SetMin(BTied)
        IN b_ret[1].bestguess = Some(b_guesses[pick])

\* a candidate was preferred to an earlier guess of equal worst case, and
\* a second tied candidate later in the list lost to it
C5_Witness ==
    /\ BDoneOn("wordle") \/ BDoneOn("dordle")
    /\ Cardinality(BTiedMembers) >= 2
    /\ SetMin(BTied) < SetMin(BTiedMembers)
    /\ b_ret[1].bestguess = Some(b_guesses[SetMin(BTiedMembers)])

\* C6: the value best_guess returns does not depend on the order in which
\* the workers finish nor on the order in which the two-board closure
\* meets the union set: it is the value of the in-order computation.
C6_ScheduleIndependent ==
    b_pc = "done" =>
        b_ret = Some(best_guess(b_mode, b_left, b_right, b_guesses))

\* a later guess was scored before the first one, the two tie on the
\* weighted score, in a two-board call over at least three words
C6_Witness ==
    /\ b_pc = "map"
    /\ b_mode = "dordle"
    /\ Cardinality(Members(b_mode, b_left, b_right)) >= 3
    /\ 1 \notin b_done
    /\ \E j \in b_done :
          /\ j > 1
          /\ BWorst(b_guesses[j]) = BWorst(b_guesses[1])
          /\ (b_guesses[j] \in Members(b_mode, b_left, b_right))
                <=> (b_guesses[1] \in Members(b_mode, b_left, b_right))
          /\ \A g \in Range(b_guesses) : BWorst(b_guesses[1]) <= BWorst(g)

\* C7: best_guess returns None as the guess whenever the guess list is
\* empty or the candidate set is empty (both boards empty in dordle).
C7_NoneOnEmpty ==
    (/\ b_pc = "done"
     /\ b_guesses = <<>> \/ Members(b_mode, b_left, b_right) = {})
    => b_ret[1].bestguess = None

\* the candidates of answers that eligible keeps for the feedback of
\* guess g against the secret a
Kept(answers, g, a) ==
    {i \in 1..Len(answers) :
        eligible(answers[i], histo(answers[i]), g, score(a, g)) = "true"}

\* the sum of the two boards' sizes after guess g if a were the secret
SumLeft(g, a) ==
    Cardinality(Kept(b_left, g, a)) + Cardinality(Kept(b_right, g, a))

\* C13: two-board scoring: the score the two-board best_guess computes for
\* a guess g is the maximum, over every word a of the union of the left
\* and the right candidates, of |prune(left, g, score(a, g))| +
\* |prune(right, g, score(a, g))|; the adversary ranges over that union.
C13_TwoBoardScore ==
    BDoneOn("dordle") =>
        \A i \in b_done :
           /\ b_scored[i][1].guess = b_guesses[i]
           /\ b_scored[i][1].sco =
                 SetMax({SumLeft(b_guesses[i], a) :
                            a \in Range(b_left) \cup Range(b_right)})

\* a guess scored on two different non-empty boards whose union is not
\* the whole word list: the score is a sum to which both boards
\* contribute, and a word of the right board alone was among the secrets
C13_Witness ==
    /\ b_mode = "dordle"
    /\ b_left # <<>> /\ b_right # <<>> /\ b_left # b_right
    /\ Range(b_right) \ Range(b_left) # {}
    /\ Range(b_left) \cup Range(b_right) # Range(DordleAnswers)
    /\ \E i \in b_done :
          \E a \in Range(b_left) \cup Range(b_right) :
             /\ b_scored[i][1].sco = SumLeft(b_guesses[i], a)
             /\ Kept(b_left, b_guesses[i], a) # {}
             /\ Kept(b_right, b_guesses[i], a) # {}

\* print_best_guess: the count printed after "with worst case",
\* (bestsco + 1) / 2 in usize arithmetic (the sum wraps for usize::MAX in
\* the optimised build and panics otherwise; best_guess returns usize::MAX
\* only for an empty guess list)
WorstPrinted(bestsco) ==
    IF bestsco = UsizeMax THEN 0 ELSE (bestsco + 1) \div 2

\* C14: the worst-case count best_guess reports for its chosen guess, as
\* the second component of its return value and as the number printed
\* after "with worst case", is the largest number of candidates the guess
\* can leave, whether or not the chosen guess is itself a candidate.
C14_ReportedWorstCase ==
    BDoneOn("wordle") =>
        /\ b_ret[1].bestsco = BWorst(b_ret[1].bestguess[1])
        /\ WorstPrinted(b_ret[1].bestsco) = BWorst(b_ret[1].bestguess[1])

----------------------------------------------------------------------------
(* Properties of the simulation harness *)

SimRunning == s_mode \in {"wordle", "dordle"}

\* C9: simulation termination, with the guess list holding every answer
\* word: in every round of sim_one (one board, every answer; two boards,
\* every pair of distinct answers) the true answer of each board is in
\* that board's candidate list, best_guess returns a guess (unwrap does
\* not panic), and the loop ends within Len(ANSW_LIST) + 1 rounds.
C9_SimTerminates ==
    SimRunning =>
        /\ s_pc \in {"loop", "done"}
        /\ s_answer1 \in Range(s_answers[1])
        /\ s_mode = "dordle" => s_answer2 \in Range(s_answers[2])
        /\ s_nrounds <= Len(ANSW_LIST) + 1
        /\ s_pc = "loop" => s_nrounds <= Len(ANSW_LIST)
        /\ s_pc = "loop" => s_nrounds < MaxRounds
        /\ s_nrounds = Len(s_issued)

\* a two-board simulation that ended after three rounds or more, both
\* boards pruned
C9_Witness ==
    /\ s_pc = "done"
    /\ s_mode = "dordle"
    /\ s_nrounds >= 3
    /\ Len(s_answers[1]) < Len(ANSW_LIST)
    /\ Len(s_answers[2]) < Len(ANSW_LIST)

\* C10: the two-board sim_one returns only when both answers have been
\* issued as the guess in some round: it never ends because one answer
\* was guessed in two rounds.
C10_BothAnswersGuessed ==
    (s_pc = "done" /\ s_mode = "dordle") =>
        /\ s_answer1 \in Range(s_issued)
        /\ s_answer2 \in Range(s_issued)

----------------------------------------------------------------------------
(* Properties of the interactive loop *)

\* exactly 5 lowercase ASCII letters
WellFormedGuess(g) == Len(g) = WordLen /\ \A i \in 1..Len(g) : IsLower(g[i])

\* exactly 5 characters from {0, 1, 2}
WellFormedResult(r) ==
    Len(r) = WordLen /\ \A i \in 1..Len(r) : r[i] \in Digit0..(Digit0 + 2)

BadGuessWord(opt) == opt = None \/ ~WellFormedGuess(opt[1])
BadResultWord(opt) == opt = None \/ ~WellFormedResult(opt[1])

\* the "g" or "gb" line being handled carries a malformed guess or feedback
MalformedLine ==
    /\ r_status = "cmd"
    /\ \/ /\ r_mode = "wordle" /\ r_line.cmd = "gb"
          /\ BadResultWord(NextWord(r_line, 1))
       \/ /\ r_mode = "wordle" /\ r_line.cmd = "g"
          /\ \/ BadGuessWord(NextWord(r_line, 1))
             \/ BadResultWord(NextWord(r_line, 2))
       \/ /\ r_mode = "dordle" /\ r_line.cmd = "g"
          /\ \/ BadGuessWord(NextWord(r_line, 1))
             \/ BadResultWord(NextWord(r_line, 2))
             \/ BadResultWord(NextWord(r_line, 3))

\* C8: malformed input is recoverable: a "g" or "gb" line whose guess is
\* not exactly 5 lowercase letters, or one of whose feedback words is not
\* exactly 5 characters from {0, 1, 2}, gets the invalid-input outcome of
\* maybe_prune (the usage text) without aborting, and leaves every board
\* unchanged, in two-board mode too.
C8_MalformedRecoverable ==
    [][MalformedLine =>
          /\ r_status' = "prompt"
          /\ r_out' = "usage"
          /\ r_answers' = r_answers]_vars

\* s is t with some elements left out, the others in t's order
RECURSIVE IsSubSeq(_, _)
IsSubSeq(s, t) ==
    IF s = <<>> THEN TRUE
    ELSE IF t = <<>> THEN FALSE
    ELSE IF Head(s) = Head(t) THEN IsSubSeq(Tail(s), Tail(t))
    ELSE IsSubSeq(s, Tail(t))

Boards == 1..Len(r_answers)

ReplRunning == r_mode \in {"wordle", "dordle"}

\* every board is a sub-sequence of the answer corpus
BoardsInCorpus ==
    ReplRunning => \A b \in Boards : IsSubSeq(r_answers[b], ANSW_LIST)

\* what one step of the loop may do to the boards
BoardStep ==
    /\ Len(r_answers') = Len(r_answers)
    /\ (r_status = "cmd" /\ r_line.cmd = "r") =>
          \A b \in Boards : r_answers'[b] = ANSW_LIST
    /\ (r_status = "cmd" /\ r_line.cmd \in {"g", "gb"}) =>
          /\ \A b \in Boards : IsSubSeq(r_answers'[b], r_answers[b])
          /\ r_status' = "aborted" \/ r_out' = "usage" =>
                r_answers' = r_answers
    /\ ~(r_status = "cmd" /\ r_line.cmd \in {"g", "gb", "r"}) =>
          r_answers' = r_answers
    /\ \A b \in Boards :
          (r_answers'[b] = ANSW_LIST /\ r_answers[b] # ANSW_LIST) =>
             (r_status = "cmd" /\ r_line.cmd = "r")

\* C11: board invariant over any sequence of commands (g, gb, r, p, b, fs,
\* unknown): every board is always a sub-sequence of the answer corpus; a
\* successful g/gb replaces each board by a sub-sequence of its previous
\* value; p, b, fs, unknown and failed commands leave the boards unchanged;
\* only r restores a board to the full corpus.
C11_BoardInvariant == []BoardsInCorpus /\ [][BoardStep]_vars

\* two boards, each pruned by a successful "g" to a proper, non-empty part
\* of the corpus
C11_Witness ==
    /\ r_mode = "dordle"
    /\ r_status = "prompt"
    /\ r_out = "none"
    /\ \A b \in Boards :
          r_answers[b] # <<>> /\ Len(r_answers[b]) < Len(ANSW_LIST)
    /\ r_answers[1] # r_answers[2]

----------------------------------------------------------------------------
(* Properties of fullsim *)

RECURSIVE SeqSum(_)
SeqSum(s) == IF s = <<>> THEN 0 ELSE Head(s) + SeqSum(Tail(s))

\* the number of simulated cases: answers, or unordered pairs of answers
NumCases ==
    IF f_mode = "wordle" THEN Len(ANSW_LIST)
    ELSE (Len(ANSW_LIST) * (Len(ANSW_LIST) - 1)) \div 2

\* C12: simulation aggregates match the per-case round counts: in both
\* fullsim functions the printed average equals the sum of the per-case
\* round counts divided by the number of simulated cases (answers, or
\* unordered pairs of distinct answers), and the printed worst equals the
\* largest per-case round count.
C12_AggregatesMatch ==
    (f_pc = "done" /\ NumCases > 0) =>
        /\ Len(f_rounds) = NumCases
        /\ f_report[1].num * NumCases = SeqSum(f_rounds) * f_report[1].den
        /\ f_report[1].worst = SetMax(Range(f_rounds))

\* a command of the one-board loop has been handled, the loop goes on
WordleHandled ==
    r_mode = "wordle" /\ r_status = "cmd" /\ r_status' = "prompt"

\* the guess a following "gb" uses after this step: the opening guess
\* after a reset, the guess just reported if one was, the same as before
\* otherwise; and a successful "gb" prunes the board with it
GbGuessStep ==
    WordleHandled =>
        /\ r_line.cmd = "r" => r_prev_best_guess' = Some(salet)
        /\ r_out' = "best" => r_prev_best_guess' = r_shown'
        /\ (r_line.cmd # "r" /\ r_out' # "best") =>
              r_prev_best_guess' = r_prev_best_guess
        /\ (r_line.cmd = "gb" /\ r_out' = "best") =>
              r_answers' = <<maybe_prune(r_answers[1], r_prev_best_guess,
                                         NextWord(r_line, 1)).items>>

\* C15: in the one-board loop, after any sequence of commands, "gb result"
\* prunes the board with the guess the program most recently reported as
\* best guess (the opening guess "salet" at start-up or after a reset
\* "r"); a "b" command that prints a best guess makes that printed guess
\* the one a following "gb" uses.
C15_GbUsesReportedGuess ==
    /\ r_mode = "wordle" =>
          r_prev_best_guess = Some(salet) /\ r_shown = Some(salet)
    /\ [][GbGuessStep]_vars

====
